---- MODULE Spec2Model ----
(***************************************************************************)
(* Control-flow-graph construction of maldefender/cfg_builder.py.          *)
(*                                                                         *)
(* Two state machines share this module.                                   *)
(*   Spec      the graph pipeline of ControlFlowGraphBuilder:              *)
(*             buildInsts -> visitInsts -> connectBlocks ->                *)
(*             exportToNxGraph, started from a normalized program whose    *)
(*             entries the instruction decoder accepts or rejects.         *)
(*   NormSpec  the listing normalizer: createProgram feeding aggregate,    *)
(*             started from the extracted text lines.                      *)
(* The instruction decoder (instructions.py) and the sentinel addresses    *)
(* (dp_utils.py) are collaborators outside cfg_builder.py; what the        *)
(* pipeline reads from them is modelled from the design description.       *)
(***************************************************************************)
EXTENDS Integers, Sequences, FiniteSets, TLC

VARIABLES
    pc,           \* stage of the pipeline the builder is in
    sentinels,    \* the values dp_utils gives FakeCalleeAddr and InvalidAddr
    program,      \* self.program in iteration order, with the decoder's verdicts
    addr2Inst,    \* self.addr2Inst: address -> Instruction
    instOrder,    \* insertion order of self.addr2Inst (an OrderedDict)
    addr2InstAux, \* self.addr2InstAux: address -> auxiliary Instruction
    programStart, \* self.programStart
    programEnd,   \* self.programEnd
    visitIdx,     \* position of visitInsts' loop in instOrder
    addr2Block,   \* self.addr2Block: address -> Block
    cfgNodes,     \* nodes of self.cfg, each with its payload (<<>> or <<Block>>)
    cfgEdges,     \* edges of self.cfg
    text,         \* self.text in line order: <<address, line>> pairs
    lineIdx,      \* position of createProgram's loop in text
    currAddr,     \* createProgram's currAddr
    sameAddrInsts,\* createProgram's sameAddrInsts
    normProgram,  \* self.program as the normalizer builds it: address -> line
    normOrder,    \* insertion order of the normalizer's self.program
    addr2RawStr   \* self.addr2RawStr: address -> raw lines

pipeVars == <<pc, sentinels, program, addr2Inst, instOrder, addr2InstAux, programStart,
              programEnd, visitIdx, addr2Block, cfgNodes, cfgEdges>>
normVars == <<text, lineIdx, currAddr, sameAddrInsts, normProgram, normOrder,
              addr2RawStr>>
vars == <<pipeVars, normVars>>

----------------------------------------------------------------------------
(* Bounds of the model and constants of the program.                       *)

\* Longest normalized program handed to buildInsts.
MaxInsts == 3

\* dp_utils.FakeCalleeAddr and dp_utils.InvalidAddr: two reserved addresses no
\* listing uses, either below every address of a listing or above all of them.
SentinelChoices ==
    {[fake |-> -2, invalid |-> -1], [fake |-> 9998, invalid |-> 9999]}
FakeCalleeAddr == sentinels.fake
InvalidAddr == sentinels.invalid

\* Instruction.__init__'s size, kept by every instruction nothing sizes.
DefaultInstSize == 0
\* "Last inst get default size 2".
LastInstSize == 2
\* enter: 0 <= enterAddr < 256 is a software interrupt number.
SoftIrqLimit == 256

\* None, for an optional address (branchTo) or an optional block (currBlock).
None == <<>>
Some(x) == <<x>>

\* Addresses a program entry may carry: three below SoftIrqLimit, two above.
AddrPool == {0, 100, 105, 258, 260}
\* Addresses findAddrInInst may report: one below SoftIrqLimit and one of
\* AddrPool above it; none found (FakeCalleeAddr), for an operand without an
\* address in it; and, for a call, one no program holds.
BranchTargets == {100, 258}
JumpTargets == BranchTargets \cup {FakeCalleeAddr}
CallTargets == JumpTargets \cup {256}

EmptyMap == [a \in {} |-> None]

max(a, b) == IF a >= b THEN a ELSE b

----------------------------------------------------------------------------
(* The decoder's verdict on one entry of the normalized program.           *)

Categories == {"calling", "conditionalJump", "unconditionalJump", "endHere", "default"}

\* What InstBuilder.createInst may return for an entry: None (accept = FALSE)
\* or an Instruction of some visitor category, mnemonic and operand address.
DecoderVerdicts ==
    {[accept |-> FALSE, category |-> "default", operand |-> "", target |-> FakeCalleeAddr]}
    \cup {[accept |-> TRUE, category |-> "default", operand |-> "mov", target |-> FakeCalleeAddr]}
    \cup {[accept |-> TRUE, category |-> "endHere", operand |-> "retn", target |-> FakeCalleeAddr]}
    \cup {[accept |-> TRUE, category |-> "conditionalJump", operand |-> "jz", target |-> t] :
             t \in BranchTargets}
    \cup {[accept |-> TRUE, category |-> "unconditionalJump", operand |-> "jmp", target |-> t] :
             t \in JumpTargets}
    \cup {[accept |-> TRUE, category |-> "calling", operand |-> "call", target |-> t] :
             t \in CallTargets}
    \cup {[accept |-> TRUE, category |-> "calling", operand |-> "int", target |-> 258]}

\* A freshly constructed Instruction (Instruction.__init__).
NewInst(addr, category, operand, target) ==
    [address |-> addr, size |-> DefaultInstSize, category |-> category,
     operand |-> operand, target |-> target, start |-> FALSE,
     fallThrough |-> TRUE, branchTo |-> None, call |-> FALSE]

\* Instruction.findAddrInInst: the address the decoder found in the operators,
\* FakeCalleeAddr when it found none.
findAddrInInst(inst) == inst.target

----------------------------------------------------------------------------
(* buildInsts.                                                             *)

\* One turn of buildInsts' loop on entry e, from st = [insts, order, prevAddr,
\* programStart, programEnd].
buildInst(st, e) ==
    IF ~e.accept
    THEN st
    ELSE LET inst == NewInst(e.addr, e.category, e.operand, e.target)
             sized == IF st.prevAddr # -1
                      THEN [st.insts EXCEPT ![st.prevAddr].size = inst.address - st.prevAddr]
                      ELSE st.insts
         IN [insts |-> (inst.address :> inst) @@ sized,
             order |-> IF inst.address \in DOMAIN st.insts
                       THEN st.order ELSE Append(st.order, inst.address),
             prevAddr |-> inst.address,
             programStart |-> IF st.programStart = -1 THEN inst.address
                              ELSE st.programStart,
             programEnd |-> max(inst.address, st.programEnd)]

RECURSIVE buildLoop(_, _, _)
buildLoop(st, prog, i) ==
    IF i > Len(prog) THEN st ELSE buildLoop(buildInst(st, prog[i]), prog, i + 1)

\* The guard under which the last instruction gets the default size.
lastInstGuard(prevAddr) == prevAddr > 0

\* buildInsts' tail: "Last inst get default size 2".
sizeLastInst(st) ==
    IF lastInstGuard(st.prevAddr)
    THEN [st EXCEPT !.insts[st.prevAddr].size = LastInstSize]
    ELSE st

buildInsts(prog) ==
    sizeLastInst(buildLoop([insts |-> EmptyMap, order |-> <<>>, prevAddr |-> -1,
                            programStart |-> -1, programEnd |-> -1], prog, 1))

BuildInsts ==
    /\ pc = "buildInsts"
    /\ LET st == buildInsts(program)
       IN /\ addr2Inst' = st.insts
          /\ instOrder' = st.order
          /\ programStart' = st.programStart
          /\ programEnd' = st.programEnd
    /\ visitIdx' = 1
    /\ pc' = "visitInsts"
    /\ UNCHANGED <<sentinels, program, addr2InstAux, addr2Block, cfgNodes, cfgEdges>>
    /\ UNCHANGED normVars

----------------------------------------------------------------------------
(* visitInsts: the visitor's handlers.                                     *)

\* The auxiliary Instruction addAuxilaryInst constructs.
AuxInst(addr, operandName) ==
    [NewInst(addr, "default", operandName, FakeCalleeAddr)
        EXCEPT !.start = TRUE, !.fallThrough = FALSE]

addAuxilaryInst(aux, addr, operandName) ==
    IF addr \notin DOMAIN aux
    THEN (addr :> AuxInst(addr, operandName)) @@ aux
    ELSE aux

\* Whether enter treats the visited instruction as a call.
isCallOperand(operand) == operand \in {"call", "syscall"}

\* enter(inst, enterAddr) on st = [insts, aux]; instAddr is inst.address and
\* operand is inst.operand.
enter(st, instAddr, operand, enterAddr) ==
    IF enterAddr = FakeCalleeAddr
    THEN [st EXCEPT !.aux = addAuxilaryInst(@, enterAddr, "extrn_sym")]
    ELSE IF enterAddr >= 0 /\ enterAddr < SoftIrqLimit
    THEN [st EXCEPT !.aux = addAuxilaryInst(@, enterAddr, "softirq")]
    ELSE IF enterAddr \notin DOMAIN st.insts
    THEN IF isCallOperand(operand)
         THEN [st EXCEPT !.aux = addAuxilaryInst(@, enterAddr, "extrn_sym")]
         ELSE [st EXCEPT !.aux = addAuxilaryInst(@, InvalidAddr, "invalid"),
                         !.insts[instAddr].branchTo = Some(InvalidAddr)]
    ELSE [st EXCEPT !.insts[enterAddr].start = TRUE]

\* branch(inst): conditional jump.
branch(st, inst) ==
    LET branchToAddr == findAddrInInst(inst)
        s1 == [st EXCEPT !.insts[inst.address].branchTo = Some(branchToAddr)]
        s2 == enter(s1, inst.address, inst.operand, branchToAddr)
    IN enter(s2, inst.address, inst.operand, inst.address + inst.size)

\* call(inst).
call(st, inst) ==
    LET callAddr == findAddrInInst(inst)
        s1 == [st EXCEPT !.insts[inst.address].call = TRUE,
                         !.insts[inst.address].branchTo = Some(callAddr)]
    IN enter(s1, inst.address, inst.operand, callAddr)

\* jump(inst): unconditional jump.
jump(st, inst) ==
    LET jumpAddr == findAddrInInst(inst)
        s1 == [st EXCEPT !.insts[inst.address].fallThrough = FALSE,
                         !.insts[inst.address].branchTo = Some(jumpAddr)]
        s2 == enter(s1, inst.address, inst.operand, jumpAddr)
    IN enter(s2, inst.address, inst.operand, inst.address + inst.size)

\* end(inst): end of flow.
end(st, inst, progEnd) ==
    LET s1 == [st EXCEPT !.insts[inst.address].fallThrough = FALSE]
    IN IF inst.address + inst.size <= progEnd
       THEN enter(s1, inst.address, inst.operand, inst.address + inst.size)
       ELSE s1

\* The instruction visitInsts' loop is at.
VisitedInst == addr2Inst[instOrder[visitIdx]]

\* One turn of visitInsts' loop, the handler h applied to the instruction.
Visit(category, after) ==
    /\ pc = "visitInsts"
    /\ visitIdx <= Len(instOrder)
    /\ VisitedInst.category = category
    /\ addr2Inst' = after.insts
    /\ addr2InstAux' = after.aux
    /\ visitIdx' = visitIdx + 1
    /\ UNCHANGED <<pc, sentinels, program, instOrder, programStart, programEnd, addr2Block,
                   cfgNodes, cfgEdges>>
    /\ UNCHANGED normVars

VisitState == [insts |-> addr2Inst, aux |-> addr2InstAux]

visitCalling == Visit("calling", call(VisitState, VisitedInst))

visitConditionalJump == Visit("conditionalJump", branch(VisitState, VisitedInst))

visitUnconditionalJump == Visit("unconditionalJump", jump(VisitState, VisitedInst))

visitEndHere == Visit("endHere", end(VisitState, VisitedInst, programEnd))

visitDefault == Visit("default", VisitState)

\* visitInsts without its update: the auxiliary instructions stay out of the
\* index.
updateWithAuxLeftOut(insts, aux) == insts

\* self.addr2Inst.update(self.addr2InstAux), the statement after the loop.
updateWithAux(insts, aux) ==
    [a \in DOMAIN insts \cup DOMAIN aux |->
        IF a \in DOMAIN aux THEN aux[a] ELSE insts[a]]

VisitInstsUpdate ==
    /\ pc = "visitInsts"
    /\ visitIdx > Len(instOrder)
    /\ addr2Inst' = updateWithAux(addr2Inst, addr2InstAux)
    /\ pc' = "connectBlocks"
    /\ UNCHANGED <<sentinels, program, instOrder, addr2InstAux, programStart, programEnd,
                   visitIdx, addr2Block, cfgNodes, cfgEdges>>
    /\ UNCHANGED normVars

----------------------------------------------------------------------------
(* connectBlocks.                                                          *)

\* A Block as Block.__init__ leaves it, getBlockAtAddr's two assignments left
\* out.
NewBlockUnset(addr) ==
    [startAddr |-> -1, endAddr |-> -1, instList |-> <<>>, edgeList |-> <<>>]

\* A freshly constructed Block with getBlockAtAddr's start and end.
NewBlock(addr) ==
    [startAddr |-> addr, endAddr |-> addr, instList |-> <<>>, edgeList |-> <<>>]

\* getBlockAtAddr: the block map after the call; the block is blocks[addr].
getBlockAtAddr(blocks, addr) ==
    IF addr \notin DOMAIN blocks
    THEN (addr :> NewBlock(addr)) @@ blocks
    ELSE blocks

\* Whether address a occurs in the list l.
InList(a, l) == \E k \in 1..Len(l) : l[k] = a

\* connectBlocks' fallthrough edge: currBlock.edgeList.append(nextBlock.startAddr).
addFallEdge(blocks, from, to) ==
    [blocks EXCEPT ![from].edgeList = Append(@, to)]

\* connectBlocks' branch and call-return edges: appended unless already there.
addEdge(blocks, from, to) ==
    IF ~InList(to, blocks[from].edgeList)
    THEN [blocks EXCEPT ![from].edgeList = Append(@, to)]
    ELSE blocks

\* connectBlocks on inst.branchTo: the edge from the current block to the block
\* at the target and, for a call, the edge back.
connectBranch(blocks, curr, inst) ==
    IF inst.branchTo # None
    THEN LET target == inst.branchTo[1]
             c1 == addEdge(getBlockAtAddr(blocks, target), curr, target)
         IN IF inst.call THEN addEdge(c1, target, curr) ELSE c1
    ELSE blocks

\* Whether connectBlocks opens the block at the instruction's address.
opensBlock(currBlock, inst) == currBlock = None \/ inst.start

\* One turn of connectBlocks' loop at address addr, from st = [blocks, currBlock].
connectInst(insts, st, addr) ==
    LET inst == insts[addr]
        opens == opensBlock(st.currBlock, inst)
        b1 == IF opens THEN getBlockAtAddr(st.blocks, addr) ELSE st.blocks
        curr == IF opens THEN addr ELSE st.currBlock[1]
        nextAddr == addr + inst.size
        falls == /\ nextAddr \in DOMAIN insts
                 /\ inst.fallThrough
                 /\ insts[nextAddr].start
        b2 == IF falls
              THEN addFallEdge(getBlockAtAddr(b1, nextAddr), curr, nextAddr)
              ELSE b1
        nextBlock == IF falls THEN nextAddr ELSE curr
        b3 == connectBranch(b2, curr, inst)
        b4 == [b3 EXCEPT ![curr].instList = Append(@, inst),
                         ![curr].endAddr = max(@, inst.address)]
    IN [blocks |-> b4, currBlock |-> Some(nextBlock)]

\* sorted(): the addresses of S in ascending order.
RECURSIVE sorted(_)
sorted(S) ==
    IF S = {} THEN <<>>
    ELSE LET m == CHOOSE x \in S : \A y \in S : x <= y
         IN <<m>> \o sorted(S \ {m})

RECURSIVE connectLoop(_, _, _, _)
connectLoop(insts, st, order, i) ==
    IF i > Len(order) THEN st
    ELSE connectLoop(insts, connectInst(insts, st, order[i]), order, i + 1)

connectBlocks(insts) ==
    connectLoop(insts, [blocks |-> EmptyMap, currBlock |-> None],
                sorted(DOMAIN insts), 1).blocks

ConnectBlocks ==
    /\ pc = "connectBlocks"
    /\ addr2Block' = connectBlocks(addr2Inst)
    /\ pc' = "exportToNxGraph"
    /\ UNCHANGED <<sentinels, program, addr2Inst, instOrder, addr2InstAux, programStart,
                   programEnd, visitIdx, cfgNodes, cfgEdges>>
    /\ UNCHANGED normVars

----------------------------------------------------------------------------------------------------------------------------------------
(* exportToNxGraph.                                                        *)

\* The (addr, neighboor) pairs add_edge is called with.
exportedEdges(blocks) ==
    UNION {{<<a, blocks[a].edgeList[k]>> : k \in 1..Len(blocks[a].edgeList)} :
              a \in DOMAIN blocks}

\* The nodes of the graph: add_node(addr, block=block) gives a node its Block
\* (held as the block's key in addr2Block); a node add_edge has to create holds
\* none.
exportedNodes(blocks) ==
    LET ends == {e[1] : e \in exportedEdges(blocks)} \cup
                {e[2] : e \in exportedEdges(blocks)}
    IN [a \in DOMAIN blocks \cup ends |->
           IF a \in DOMAIN blocks THEN Some(a) ELSE None]

ExportToNxGraph ==
    /\ pc = "exportToNxGraph"
    /\ cfgNodes' = exportedNodes(addr2Block)
    /\ cfgEdges' = exportedEdges(addr2Block)
    /\ pc' = "done"
    /\ UNCHANGED <<sentinels, program, addr2Inst, instOrder, addr2InstAux, programStart,
                   programEnd, visitIdx, addr2Block>>
    /\ UNCHANGED normVars

----------------------------------------------------------------------------
(* The graph pipeline as a state machine.                                  *)

\* The programs buildInsts may be handed: up to MaxInsts entries of distinct
\* addresses, in the ascending order of a listing.
AddrSeqs(n) ==
    {as \in [1..n -> AddrPool] : \A i, j \in 1..n : i < j => as[i] < as[j]}

ProgramOf(as, vs) ==
    [i \in DOMAIN as |->
        [addr |-> as[i], accept |-> vs[i].accept, category |-> vs[i].category,
         operand |-> vs[i].operand, target |-> vs[i].target]]

NormIdle ==
    /\ text = <<>>
    /\ lineIdx = 0
    /\ currAddr = None
    /\ sameAddrInsts = <<>>
    /\ normProgram = EmptyMap
    /\ normOrder = <<>>
    /\ addr2RawStr = EmptyMap

Init ==
    /\ pc = "buildInsts"
    /\ sentinels \in SentinelChoices
    /\ \E n \in 0..MaxInsts :
          \E as \in AddrSeqs(n), vs \in [1..n -> DecoderVerdicts] :
             program = ProgramOf(as, vs)
    /\ addr2Inst = EmptyMap
    /\ instOrder = <<>>
    /\ addr2InstAux = EmptyMap
    /\ programStart = -1
    /\ programEnd = -1
    /\ visitIdx = 0
    /\ addr2Block = EmptyMap
    /\ cfgNodes = EmptyMap
    /\ cfgEdges = {}
    /\ NormIdle

----------------------------------------------------------------------------
(* The listing normalizer: aggregate.                                      *)
(*                                                                         *)
(* A line of self.text is " ".join of whitespace-free, non-empty tokens, so *)
(* a line is modelled as its token sequence and the space-joined           *)
(* concatenation of lines as the concatenation of their token sequences.   *)
(* In the tokens of LinePool a keyword of aggregate occurs only as a whole *)
(* token and a ':' only at the end of a label; no token of LinePool ends   *)
(* in a backslash.                                                         *)

\* Longest extracted text handed to createProgram.
MaxLines == 3

NormAddrs == {"00401000", "00401005"}

LinePool ==
    {<<"mov", "eax">>, <<"push", "ebx">>, <<"retn">>,
     <<"dd", "1">>, <<"dd", "2">>, <<"x", "dw", "5">>, <<"unicode", "0">>,
     <<"var_4", "=", "dword", "ptr", "-4">>,
     <<"sub_1", "proc", "near">>, <<"sub_1", "endp">>, <<"public", "start">>,
     <<"loc_1:">>, <<"_text", "segment">>}

\* int(addrStr, 16).
HexValue(addrStr) ==
    CASE addrStr = "00401000" -> 4198400
      [] addrStr = "00401005" -> 4198405

\* str.find(word) != -1 for a word without spaces.
hasWord(line, word) == \E k \in 1..Len(line) : line[k] = word

\* str.find('w1 w2') != -1.
hasWords(line, w1, w2) ==
    \E k \in 1..(Len(line) - 1) : line[k] = w1 /\ line[k + 1] = w2

\* str.startswith(word + ' ').
startsWithWord(line, word) == Len(line) >= 2 /\ line[1] = word

\* str.find(' ' + word + ' ') != -1.
hasInnerWord(line, word) == \E k \in 2..(Len(line) - 1) : line[k] = word

\* ptrPattern.match: r'.+=.+ ptr .+'.
matchesPtrPattern(line) ==
    \E i \in 2..Len(line), j \in 1..(Len(line) - 1) :
        line[i] = "=" /\ line[j] = "ptr" /\ j >= i + 2

\* str.endswith(':').
endsWithColon(line) == line[Len(line)] \in {"loc_1:"}

\* str.rstrip('\n\\'): the tokens that end in a backslash, stripped of it.
rstripBackslash(line) ==
    [line EXCEPT ![Len(line)] = IF @ = "nop\\" THEN "nop" ELSE @]

\* str.startswith('w1 w2').
startsWithWords(line, w1, w2) == Len(line) >= 2 /\ line[1] = w1 /\ line[2] = w2

isHeaderInfo(sameAddr) ==
    \E k \in 1..Len(sameAddr) :
        \/ startsWithWords(sameAddr[k], "_text", "segment")
        \/ hasWord(sameAddr[k], ".mmx")

\* Where aggregate's loop sends one line: dropped ("skip"), added to
\* foundDataDeclare ("data") or appended to validInst ("valid").
lineKind(inst) ==
    IF hasWords(inst, "proc", "near") \/ hasWords(inst, "proc", "far") THEN "skip"
    ELSE IF hasWord(inst, "public") THEN "skip"
    ELSE IF hasWord(inst, "assume") THEN "skip"
    ELSE IF hasWord(inst, "endp") \/ hasWord(inst, "ends") THEN "skip"
    ELSE IF hasInnerWord(inst, "=") \/ matchesPtrPattern(inst) THEN "data"
    ELSE IF startsWithWord(inst, "dw") \/ hasInnerWord(inst, "dw") THEN "data"
    ELSE IF startsWithWord(inst, "dd") \/ hasInnerWord(inst, "dd") THEN "data"
    ELSE IF startsWithWord(inst, "db") \/ hasInnerWord(inst, "db") THEN "data"
    ELSE IF startsWithWord(inst, "dt") \/ hasInnerWord(inst, "dt") THEN "data"
    ELSE IF startsWithWord(inst, "unicode") THEN "data"
    ELSE IF endsWithColon(inst) THEN "skip"
    ELSE "valid"

IsValidInst(inst) == lineKind(inst) = "valid"
IsDataDeclare(inst) == lineKind(inst) = "data"

\* validInst after aggregate's loop.
validInst(lines) == SelectSeq(lines, IsValidInst)

\* The lines of ls joined by single spaces.
RECURSIVE joinLines(_)
joinLines(ls) ==
    IF ls = <<>> THEN <<>> ELSE Head(ls) \o joinLines(Tail(ls))

\* foundDataDeclare after aggregate's loop, its trailing space stripped.
foundDataDeclare(lines) == joinLines(SelectSeq(lines, IsDataDeclare))

\* The fallback "Concat unaggregatable insts".
RECURSIVE concatValid(_)
concatValid(valid) ==
    IF valid = <<>> THEN <<>>
    ELSE rstripBackslash(Head(valid)) \o concatValid(Tail(valid))

\* Which of aggregate's three outputs a headerless group gets.
aggregateCase(nValid, nDeclared) ==
    IF nValid = 1 THEN "one"
    ELSE IF nDeclared > 0 THEN "data"
    ELSE "concat"

\* The line aggregate stores in self.program[addrStr].
aggregateLine(lines) ==
    IF isHeaderInfo(lines) THEN lines[Len(lines)]
    ELSE LET valid == validInst(lines)
             declared == foundDataDeclare(lines)
             which == aggregateCase(Len(valid), Len(declared))
         IN IF which = "one" THEN valid[1] \o declared
            ELSE IF which = "data" THEN declared
            ELSE concatValid(valid)

\* appendRawString.
appendRawString(raw, addr, instRawStrs) ==
    IF addr \in DOMAIN raw
    THEN [raw EXCEPT ![addr] = @ \o instRawStrs]
    ELSE (addr :> instRawStrs) @@ raw

\* aggregate(addrStr, sameAddrInsts) on st = [program, order, raw].
aggregate(st, addrStr, lines) ==
    [program |-> (addrStr :> aggregateLine(lines)) @@ st.program,
     order |-> IF addrStr \in DOMAIN st.program THEN st.order
               ELSE Append(st.order, addrStr),
     raw |-> appendRawString(st.raw, HexValue(addrStr), lines)]

----------------------------------------------------------------------------
(* createProgram.                                                          *)

NormState == [program |-> normProgram, order |-> normOrder, raw |-> addr2RawStr]

SetNormState(st) ==
    /\ normProgram' = st.program
    /\ normOrder' = st.order
    /\ addr2RawStr' = st.raw

\* One turn of createProgram's loop; a line of another address than currAddr
\* aggregates the lines collected so far.
CreateProgramLine ==
    /\ pc = "createProgram"
    /\ lineIdx <= Len(text)
    /\ LET addr == text[lineIdx].addr
           inst == text[lineIdx].line
           flush == currAddr # None /\ Some(addr) # currAddr
       IN /\ IF flush
             THEN SetNormState(aggregate(NormState, currAddr[1], sameAddrInsts))
             ELSE UNCHANGED <<normProgram, normOrder, addr2RawStr>>
          /\ sameAddrInsts' = Append(IF flush THEN <<>> ELSE sameAddrInsts, inst)
          /\ currAddr' = Some(addr)
    /\ lineIdx' = lineIdx + 1
    /\ UNCHANGED <<pc, text>>
    /\ UNCHANGED <<sentinels, program, addr2Inst, instOrder, addr2InstAux,
                   programStart, programEnd, visitIdx, addr2Block, cfgNodes, cfgEdges>>

\* createProgram after its loop: the last group is aggregated.
CreateProgramEnd ==
    /\ pc = "createProgram"
    /\ lineIdx > Len(text)
    /\ IF Len(sameAddrInsts) > 0
       THEN SetNormState(aggregate(NormState, currAddr[1], sameAddrInsts))
       ELSE UNCHANGED <<normProgram, normOrder, addr2RawStr>>
    /\ pc' = "normDone"
    /\ UNCHANGED <<text, lineIdx, currAddr, sameAddrInsts>>
    /\ UNCHANGED <<sentinels, program, addr2Inst, instOrder, addr2InstAux,
                   programStart, programEnd, visitIdx, addr2Block, cfgNodes, cfgEdges>>

\* The texts extractTextSeg may leave: up to MaxLines lines, each under an
\* address.
Texts ==
    UNION {[1..n -> [addr : NormAddrs, line : LinePool]] : n \in 0..MaxLines}

NormInit ==
    /\ pc = "createProgram"
    /\ text \in Texts
    /\ lineIdx = 1
    /\ currAddr = None
    /\ sameAddrInsts = <<>>
    /\ normProgram = EmptyMap
    /\ normOrder = <<>>
    /\ addr2RawStr = EmptyMap
    /\ sentinels \in {[fake |-> -2, invalid |-> -1]}
    /\ program = <<>>
    /\ addr2Inst = EmptyMap
    /\ instOrder = <<>>
    /\ addr2InstAux = EmptyMap
    /\ programStart = -1
    /\ programEnd = -1
    /\ visitIdx = 0
    /\ addr2Block = EmptyMap
    /\ cfgNodes = EmptyMap
    /\ cfgEdges = {}

NormNext ==
    \/ CreateProgramLine
    \/ CreateProgramEnd

NormSpec == NormInit /\ [][NormNext]_vars

Next ==
    \/ BuildInsts
    \/ visitCalling
    \/ visitConditionalJump
    \/ visitUnconditionalJump
    \/ visitEndHere
    \/ visitDefault
    \/ VisitInstsUpdate
    \/ ConnectBlocks
    \/ ExportToNxGraph

Spec == Init /\ [][Next]_vars

----------------------------------------------------------------------------
(* Vocabulary of the properties.                                           *)

\* connectBlocks has run.
Assembled == pc \in {"exportToNxGraph", "done"}

\* The decoded index: the addresses of the instructions buildInsts accepted.
DecodedAddrs == {instOrder[k] : k \in 1..Len(instOrder)}

\* An instruction addAuxilaryInst made, as opposed to one the decoder made.
IsAux(inst) == inst.operand \in {"extrn_sym", "softirq", "invalid"}

\* The blocks whose instList holds the decoded instruction of address a.
HoldersOf(a) ==
    {b \in DOMAIN addr2Block :
        \E k \in 1..Len(addr2Block[b].instList) :
            /\ addr2Block[b].instList[k].address = a
            /\ ~IsAux(addr2Block[b].instList[k])}

NoDuplicates(l) == \A j, k \in 1..Len(l) : j # k => l[j] # l[k]

----------------------------------------------------------------------------
(* C1: edgeList is free of duplicates.                                     *)

\* C1 (as claimed): after connectBlocks no block's edgeList holds the same
\* successor address twice.
C1_NoDuplicateEdges ==
    Assembled => \A b \in DOMAIN addr2Block : NoDuplicates(addr2Block[b].edgeList)

----------------------------------------------------------------------------
(* C2: instruction sizes after buildInsts.                                 *)

\* C2 (as claimed): after buildInsts over a program with an accepted
\* instruction, each accepted instruction but the last has the size of the gap
\* to the next accepted one, and the last has size 2.
C2_SizesAfterBuild ==
    (pc = "visitInsts" /\ visitIdx = 1 /\ Len(instOrder) >= 1) =>
        /\ \A k \in 1..(Len(instOrder) - 1) :
              addr2Inst[instOrder[k]].size = instOrder[k + 1] - instOrder[k]
        /\ addr2Inst[instOrder[Len(instOrder)]].size = 2

----------------------------------------------------------------------------
(* C3: one program entry per address, merged from all its lines.           *)

\* The lines of the text under address a, in listing order.
LinesAt(a) ==
    LET at == SelectSeq(text, LAMBDA t : t.addr = a)
    IN [k \in 1..Len(at) |-> at[k].line]

\* C3 (as claimed): the normalized program has one entry per address of the
\* text, made of all the lines of that address, also when the lines of the
\* address are split into groups by lines of another address.
C3_EntriesMerged ==
    pc = "normDone" =>
        /\ DOMAIN normProgram = {text[k].addr : k \in 1..Len(text)}
        /\ \A a \in DOMAIN normProgram : normProgram[a] = aggregateLine(LinesAt(a))

----------------------------------------------------------------------------
(* C4: aggregate's output for a group without header line.                 *)

\* C4 (as claimed): for a text that is one same-address group without header
\* line, the program line is (i) the one valid candidate followed by the data
\* declarations, (ii) the data declarations alone when no candidate is valid,
\* (iii) the valid candidates joined in order when there are two or more.
C4_AggregateCases ==
    (/\ pc = "normDone"
     /\ Len(text) >= 1
     /\ \A k \in 1..Len(text) : text[k].addr = text[1].addr
     /\ ~isHeaderInfo(LinesAt(text[1].addr))) =>
        LET lines == LinesAt(text[1].addr)
            valid == SelectSeq(lines, IsValidInst)
            declared == joinLines(SelectSeq(lines, IsDataDeclare))
            out == normProgram[text[1].addr]
        IN /\ Len(valid) = 1 => out = valid[1] \o declared
           /\ (Len(valid) = 0 /\ Len(declared) > 0) => out = declared
           /\ Len(valid) >= 2 => out = joinLines(valid)

----------------------------------------------------------------------------
(* C5: a block spans its instructions and starts at a block entry.         *)

\* The lowest address of the instruction index.
FirstAddr == CHOOSE a \in DOMAIN addr2Inst : \A c \in DOMAIN addr2Inst : a <= c

\* Every instruction of block b lies in [startAddr, endAddr].
BlockSpansInsts(b) ==
    \A k \in 1..Len(addr2Block[b].instList) :
        /\ addr2Block[b].startAddr <= addr2Block[b].instList[k].address
        /\ addr2Block[b].instList[k].address <= addr2Block[b].endAddr

----------------------------------------------------------------------------
(* C6: every instruction is in exactly one block.                          *)

\* How often the blocks' instLists hold an instruction satisfying P.
Placements(P(_)) ==
    Cardinality({bk \in UNION {{<<b, k>> : k \in 1..Len(addr2Block[b].instList)} :
                                b \in DOMAIN addr2Block} :
                    P(addr2Block[bk[1]].instList[bk[2]])})

\* C6 (as claimed): after visitInsts and connectBlocks every instruction the
\* decoder accepted and every auxiliary instruction is in the instList of
\* exactly one block, once.
C6_EveryInstInOneBlock ==
    Assembled =>
        /\ \A a \in DecodedAddrs :
              Placements(LAMBDA i : i.address = a /\ ~IsAux(i)) = 1
        /\ \A a \in DOMAIN addr2InstAux :
              Placements(LAMBDA i : i = addr2InstAux[a]) = 1

----------------------------------------------------------------------------
(* C7: no dangling edges.                                                  *)

\* C7: after connectBlocks and exportToNxGraph every address in a block's
\* edgeList is a key of addr2Block and a node of the graph that carries its
\* Block, and that block holds an instruction.
C7_NoDanglingEdges ==
    pc = "done" =>
        \A b \in DOMAIN addr2Block :
            \A k \in 1..Len(addr2Block[b].edgeList) :
                LET t == addr2Block[b].edgeList[k]
                IN /\ t \in DOMAIN addr2Block
                   /\ t \in DOMAIN cfgNodes
                   /\ cfgNodes[t] = Some(t)
                   /\ addr2Block[t].instList # <<>>
                   /\ <<b, t>> \in cfgEdges

\* C7 witness: an exported graph with an edge to the block of a later
\* instruction, an edge to the InvalidAddr block and an edge to the block of
\* an auxiliary instruction that took the address of a decoded one.
C7_Witness ==
    /\ pc = "done"
    /\ \E e \in cfgEdges : e[2] = InvalidAddr
    /\ \E e \in cfgEdges : e[2] \in DecodedAddrs /\ e[2] > e[1] /\ e[1] >= 0
    /\ \E e \in cfgEdges : e[2] \in DecodedAddrs /\ IsAux(addr2Inst[e[2]])

----------------------------------------------------------------------------
(* C8: a call's edge and the edge back.                                     *)

\* C8 (as claimed): after connectBlocks every instruction the decoder gave
\* the category calling is in a block, that block has an edge to the block at
\* the call's branchTo, and that block has an edge back.
C8_CallEdges ==
    Assembled =>
        \A k \in 1..Len(program) :
            (program[k].accept /\ program[k].category = "calling") =>
                LET a == program[k].addr
                IN /\ HoldersOf(a) # {}
                   /\ addr2Inst[a].call
                   /\ addr2Inst[a].branchTo # None
                   /\ addr2Inst[a].branchTo[1] \in DOMAIN addr2Block
                   /\ \A b \in HoldersOf(a) :
                         /\ InList(addr2Inst[a].branchTo[1], addr2Block[b].edgeList)
                         /\ InList(b, addr2Block[addr2Inst[a].branchTo[1]].edgeList)

----------------------------------------------------------------------------
(* C9: the extern-call scenario.                                           *)

\* A call at 100 the decoder finds no address in, then an end of flow at 105.
ExternCallProgram ==
    <<[addr |-> 100, accept |-> TRUE, category |-> "calling", operand |-> "call",
       target |-> FakeCalleeAddr],
      [addr |-> 105, accept |-> TRUE, category |-> "endHere", operand |-> "retn",
       target |-> FakeCalleeAddr]>>

\* The addresses of the instructions in block b's instList, in order.
InstAddrs(b) ==
    [k \in 1..Len(addr2Block[b].instList) |-> addr2Block[b].instList[k].address]

\* C9 (as claimed): for that program the exported graph has exactly the block
\* at 100, holding both decoded instructions, and the extern-symbol block,
\* holding the auxiliary instruction alone, with exactly the edges
\* 100 -> extern and extern -> 100, whatever value FakeCalleeAddr has.
C9_ExternCallGraph ==
    (pc = "done" /\ program = ExternCallProgram) =>
        /\ DOMAIN cfgNodes = {100, FakeCalleeAddr}
        /\ DOMAIN addr2Block = {100, FakeCalleeAddr}
        /\ InstAddrs(100) = <<100, 105>>
        /\ InstAddrs(FakeCalleeAddr) = <<FakeCalleeAddr>>
        /\ cfgEdges = {<<100, FakeCalleeAddr>>, <<FakeCalleeAddr, 100>>}

----------------------------------------------------------------------------
(* C10: a jump to an address the index does not hold.                      *)

\* visitInsts has run, its update included.
Visited == pc \in {"connectBlocks", "exportToNxGraph", "done"}

\* Program entry e is an accepted jump, not call-classified, whose resolved
\* target is not FakeCalleeAddr, not a software interrupt and not decoded.
IsUnresolvedJump(e) ==
    /\ e.accept
    /\ e.category \in {"conditionalJump", "unconditionalJump"}
    /\ ~isCallOperand(e.operand)
    /\ e.target # FakeCalleeAddr
    /\ ~(e.target >= 0 /\ e.target < SoftIrqLimit)
    /\ e.target \notin DecodedAddrs

\* C10 (as claimed): after visitInsts the auxiliary "invalid" instruction is
\* in the index at InvalidAddr and such a jump has branchTo = InvalidAddr;
\* after connectBlocks there is a block at InvalidAddr, the jump is in a block
\* and that block has an edge to the block at InvalidAddr.
C10_UnresolvedJumpToInvalid ==
    Visited =>
        \A k \in 1..Len(program) :
            IsUnresolvedJump(program[k]) =>
                LET a == program[k].addr
                IN /\ InvalidAddr \in DOMAIN addr2InstAux
                   /\ addr2InstAux[InvalidAddr].operand = "invalid"
                   /\ addr2Inst[InvalidAddr] = addr2InstAux[InvalidAddr]
                   /\ ~IsAux(addr2Inst[a]) => addr2Inst[a].branchTo = Some(InvalidAddr)
                   /\ Assembled =>
                        /\ InvalidAddr \in DOMAIN addr2Block
                        /\ HoldersOf(a) # {}
                        /\ \A b \in HoldersOf(a) :
                              InList(InvalidAddr, addr2Block[b].edgeList)

----------------------------------------------------------------------------
(* C11: a jump to a decoded instruction keeps its target.                  *)

\* Program entry e is an accepted jump whose resolved target is the address,
\* not below SoftIrqLimit, of an instruction the decoder accepted.
IsResolvedJump(e) ==
    /\ e.accept
    /\ e.category \in {"conditionalJump", "unconditionalJump"}
    /\ e.target \in DecodedAddrs
    /\ e.target >= SoftIrqLimit

\* C11 (as claimed): after visitInsts a jump of the index whose resolved
\* target is a decoded instruction at an address >= 256 has branchTo equal to
\* that target, and after connectBlocks the block holding the jump has an
\* edge to the block at the target, also when the jump is the last decoded
\* instruction.
C11_ResolvedJumpKeepsTarget ==
    Visited =>
        \A k \in 1..Len(program) :
            (IsResolvedJump(program[k]) /\ ~IsAux(addr2Inst[program[k].addr])) =>
                LET a == program[k].addr
                    t == program[k].target
                IN /\ addr2Inst[a].branchTo = Some(t)
                   /\ Assembled =>
                        /\ t \in DOMAIN addr2Block
                        /\ HoldersOf(a) # {}
                        /\ \A b \in HoldersOf(a) : InList(t, addr2Block[b].edgeList)

----------------------------------------------------------------------------
(* C12: the fall-through link of consecutive decoded instructions.         *)

\* Address a holds a decoded instruction that falls through to the decoded
\* instruction at a + size.
FallsToDecoded(a) ==
    /\ a \in DOMAIN addr2Inst
    /\ ~IsAux(addr2Inst[a])
    /\ addr2Inst[a].fallThrough
    /\ a + addr2Inst[a].size \in DOMAIN addr2Inst
    /\ ~IsAux(addr2Inst[a + addr2Inst[a].size])

\* C12 (as claimed): after connectBlocks, for a decoded instruction that falls
\* through to a decoded successor, the successor is in the same block or in a
\* block whose start address is in the edgeList of the instruction's block,
\* and no auxiliary instruction of an address between the two has the
\* successor in its block.
C12_FallThroughLinked ==
    Assembled =>
        \A a \in DOMAIN addr2Inst :
            FallsToDecoded(a) =>
                LET succ == a + addr2Inst[a].size
                IN /\ HoldersOf(a) # {}
                   /\ HoldersOf(succ) # {}
                   /\ \A b \in HoldersOf(a) :
                         \/ b \in HoldersOf(succ)
                         \/ \E c \in HoldersOf(succ) : InList(c, addr2Block[b].edgeList)
                   /\ \A x \in DOMAIN addr2InstAux :
                         (a < x /\ x < succ) => x \notin HoldersOf(succ)

====
